---- MODULE Spec2Model ----
(***************************************************************************)
(* Model of the automail Chrome extension (src/extension/background.js,    *)
(* which holds the background script, the content script, the floating     *)
(* widget, the iframe script and the popup script one after the other).    *)
(*                                                                         *)
(* Two independent execution contexts are modelled here, each with its     *)
(* own specification:                                                      *)
(*   SpecCS  the content script: addSummarizeButton, its retry timer, the  *)
(*           debounced MutationObserver callback and the host page that    *)
(*           re-renders the toolbar;                                       *)
(*   SpecBG  the background script: the onMessage listener, the fetch      *)
(*           promise chain and chrome.storage.local.                       *)
(* Each context is a single-threaded event loop: one action is one task    *)
(* (an event handler, a timer callback, a promise reaction) run to         *)
(* completion.                                                             *)
(***************************************************************************)
EXTENDS Integers, Sequences, FiniteSets, TLC

(***************************************************************************)
(* Bounds of the model.                                                    *)
(***************************************************************************)
\* Granularity of the clock of the content script, in milliseconds.
TickMs == 250
\* The length of a burst of mutation signals is counted up to this number.
MaxBurst == 3

(***************************************************************************)
(* Program constants of the content script.                                *)
(***************************************************************************)
\* setTimeout(addSummarizeButton, 500)
RetryDelayMs_long == 500 + 500
RetryDelayMs == 500
\* debounceAddSummarizeButton(addSummarizeButton, 500)
DebounceWaitMs == 500

Min(a, b) == IF a < b THEN a ELSE b
Max(a, b) == IF a > b THEN a ELSE b

\* t occurs in s (String.prototype.includes).
Contains(s, t) ==
    \E k \in 1..(Len(s) - Len(t) + 1) : SubSeq(s, k, k + Len(t) - 1) = t

\* String.prototype.trim, for the blanks of the texts of the model.
RECURSIVE TrimLeft(_)
TrimLeft(s) ==
    IF Len(s) > 0 /\ SubSeq(s, 1, 1) = " "
    THEN TrimLeft(SubSeq(s, 2, Len(s))) ELSE s
RECURSIVE TrimRight(_)
TrimRight(s) ==
    IF Len(s) > 0 /\ SubSeq(s, Len(s), Len(s)) = " "
    THEN TrimRight(SubSeq(s, 1, Len(s) - 1)) ELSE s
Trim(s) == TrimRight(TrimLeft(s))

\* a || b for two strings.
OrElse(a, b) == IF a # "" THEN a ELSE b

(***************************************************************************)
(* State of the content script.                                            *)
(*   toolbarPresent  document.querySelector(MAIN_TOOLBAR_SELECTOR)         *)
(*   anchorPresent   document.querySelector(TOOLBAR_INSERTION_POINT_...)   *)
(*   bodyPresent     document.querySelector(EMAIL_BODY_SELECTOR)           *)
(*   buttons         number of elements with id BUTTON_ID in the document  *)
(*   retried         window.addSummarizeButtonRetried (undefined = FALSE)  *)
(*   timers          the pending setTimeout timers of the script, in the   *)
(*                   order they were set; rem is the time left             *)
(*   pc              "load" before the script's top level has run          *)
(*   lastCaller      who made the latest call of addSummarizeButton in the *)
(*                   latest step ("none" when the step made no call)       *)
(*   sinceSignal     time since the latest mutation signal that passed the *)
(*                   gate of the callback, capped at DebounceWaitMs        *)
(*   burstSignals    number of signals of the current burst (each arrived  *)
(*                   while the timer of the one before was waiting)        *)
(*   burstCalls      calls of addSummarizeButton made by the debounced     *)
(*                   function since the current burst began                *)
(***************************************************************************)
VARIABLES toolbarPresent, anchorPresent, bodyPresent, buttons, retried,
          timers, pc, lastCaller, sinceSignal, burstSignals, burstCalls

csVars == <<toolbarPresent, anchorPresent, bodyPresent, buttons, retried,
            timers, pc, lastCaller, sinceSignal, burstSignals, burstCalls>>

IsDebounce(t) == t.kind = "debounce"
IsRetry(t) == t.kind = "retry"
NotDebounce(t) == t.kind # "debounce"

\* window.setTimeout: a new timer after all the timers set before it.
SetTimeout(ts, kind, wait) == Append(ts, [kind |-> kind, rem |-> wait])

\* clearTimeout(timeout) of the debounce closure: timeout only ever holds
\* the handle of the latest debounce timer.
ClearTimeout_keep(ts) == ts
ClearTimeout(ts) == SelectSeq(ts, NotDebounce)

\* executedFunction of debounceAddSummarizeButton: cancel, then restart.
executedFunction_noRestart(ts) == ClearTimeout(ts)
executedFunction(ts) == SetTimeout(ClearTimeout(ts), "debounce", DebounceWaitMs)

\* The gate of the MutationObserver callback: toolbar and email body present.
Gate(toolbar, body) == toolbar /\ body

\* callback(mutationsList): every record is a childList record, so the
\* loop calls the debounced function once if the gate is open.
callback(ts, toolbar, body) ==
    IF Gate(toolbar, body) THEN executedFunction(ts) ELSE ts

\* document.getElementById(BUTTON_ID) is truthy
ButtonExists_never(b) == FALSE
ButtonExists(b) == b > 0

\* !window.addSummarizeButtonRetried
RetryGuard_open(r) == TRUE
RetryGuard(r) == ~r

\* addSummarizeButton(): the new values of buttons, the retry flag and the
\* timers, and whether an element was inserted into the document.
addSummarizeButton_noReset(b, anchor, r, ts) ==
    IF ButtonExists(b)
    THEN [buttons |-> b, retried |-> r, timers |-> ts, inserted |-> FALSE]
    ELSE IF ~anchor
         THEN IF RetryGuard(r)
              THEN [buttons |-> b, retried |-> TRUE,
                    timers |-> SetTimeout(ts, "retry", RetryDelayMs),
                    inserted |-> FALSE]
              ELSE [buttons |-> b, retried |-> TRUE, timers |-> ts,
                    inserted |-> FALSE]
         ELSE [buttons |-> b + 1, retried |-> r, timers |-> ts,
               inserted |-> TRUE]
addSummarizeButton(b, anchor, r, ts) ==
    IF ButtonExists(b)
    THEN [buttons |-> b, retried |-> r, timers |-> ts, inserted |-> FALSE]
    ELSE IF ~anchor
         THEN IF RetryGuard(r)
              THEN [buttons |-> b, retried |-> TRUE,
                    timers |-> SetTimeout(ts, "retry", RetryDelayMs),
                    inserted |-> FALSE]
              ELSE [buttons |-> b, retried |-> FALSE, timers |-> ts,
                    inserted |-> FALSE]
         ELSE [buttons |-> b + 1, retried |-> FALSE, timers |-> ts,
               inserted |-> TRUE]

NumRetry(ts) == Len(SelectSeq(ts, IsRetry))
NumDebounce(ts) == Len(SelectSeq(ts, IsDebounce))

\* The history of signals and debounced calls, kept for the debounce claim.
\* pending: a debounce timer was waiting when the step began;
\* signalled: the step delivered a mutation signal that passed the gate;
\* called: the step ran the debounced function's `later`.
\* A signal that finds the timer of the signal before it still waiting
\* continues the burst; any other signal begins a burst.
History(pending, signalled, called) ==
    LET calls0 == IF called THEN burstCalls + 1 ELSE burstCalls
    IN  IF signalled
        THEN /\ sinceSignal' = 0
             /\ IF pending /\ ~called
                THEN /\ burstSignals' = Min(burstSignals + 1, MaxBurst)
                     /\ burstCalls' = calls0
                ELSE /\ burstSignals' = 1
                     /\ burstCalls' = 0
        ELSE /\ sinceSignal' = sinceSignal
             /\ burstSignals' = burstSignals
             /\ burstCalls' = calls0

\* One call of addSummarizeButton by `caller` with the timers ts0, followed
\* by the observer's callback when the call inserted the button (the
\* insertion is a childList mutation under document.body).
Reconcile(caller, ts0) ==
    LET res == addSummarizeButton(buttons, anchorPresent, retried, ts0)
        sig == res.inserted /\ Gate(toolbarPresent, bodyPresent)
    IN  /\ buttons' = res.buttons
        /\ retried' = res.retried
        /\ timers' = IF res.inserted
                     THEN callback(res.timers, toolbarPresent, bodyPresent)
                     ELSE res.timers
        /\ lastCaller' = caller
        /\ History(NumDebounce(timers) > 0, sig, caller = "debounced")
        /\ UNCHANGED <<toolbarPresent, anchorPresent, bodyPresent>>

\* The DOM states of the host: the insertion anchor is a descendant of the
\* main toolbar.
CSInit ==
    /\ toolbarPresent \in BOOLEAN
    /\ anchorPresent \in BOOLEAN
    /\ anchorPresent => toolbarPresent
    /\ bodyPresent \in BOOLEAN
    /\ buttons = 0
    /\ retried = FALSE
    /\ timers = <<>>
    /\ pc = "load"
    /\ lastCaller = "none"
    /\ sinceSignal = DebounceWaitMs
    /\ burstSignals = 0
    /\ burstCalls = 0

\* Top level of the content script: observer.observe(document.body, config)
\* and the initial addSummarizeButton().
Start ==
    /\ pc = "load"
    /\ pc' = "running"
    /\ Reconcile("initial", timers)

\* A re-render of the host page, one task of the host: the toolbar, the
\* anchor and the email body end up present or not, the injected button is
\* kept or dropped (it lives in the toolbar), and the observer's callback
\* runs once for the batch of childList records.
HostRender ==
    /\ pc = "running"
    /\ \E tb \in BOOLEAN, an \in BOOLEAN, bd \in BOOLEAN, keep \in BOOLEAN :
        /\ an => tb
        /\ toolbarPresent' = tb
        /\ anchorPresent' = an
        /\ bodyPresent' = bd
        /\ buttons' = IF keep /\ tb THEN buttons ELSE 0
        /\ timers' = callback(timers, tb, bd)
        /\ History(NumDebounce(timers) > 0, Gate(tb, bd), FALSE)
    /\ lastCaller' = "none"
    /\ UNCHANGED <<retried, pc>>

\* Index of the timer that runs next: the first one that is due.  Timers
\* of one window run in the order they fall due, and timers with the same
\* delay in the order they were set; both delays of the script are 500 ms.
DueTimers == {i \in 1..Len(timers) : timers[i].rem = 0}
FirstDue == CHOOSE i \in DueTimers : \A j \in DueTimers : i <= j
Without(ts, i) == SubSeq(ts, 1, i - 1) \o SubSeq(ts, i + 1, Len(ts))

\* The retry timer fires: addSummarizeButton().
RetryFires ==
    /\ pc = "running"
    /\ DueTimers # {}
    /\ timers[FirstDue].kind = "retry"
    /\ Reconcile("retry", Without(timers, FirstDue))
    /\ UNCHANGED pc

\* The debounce timer fires: later() { clearTimeout(timeout); func(); }
DebounceFires ==
    /\ pc = "running"
    /\ DueTimers # {}
    /\ timers[FirstDue].kind = "debounce"
    /\ Reconcile("debounced", ClearTimeout(Without(timers, FirstDue)))
    /\ UNCHANGED pc

\* Time passes; a timer that is due runs before more time passes.
Elapse(t) == [t EXCEPT !.rem = Max(0, t.rem - TickMs)]
Tick ==
    /\ pc = "running"
    /\ DueTimers = {}
    /\ timers # <<>> \/ sinceSignal < DebounceWaitMs
    /\ timers' = [i \in 1..Len(timers) |-> Elapse(timers[i])]
    /\ sinceSignal' = Min(DebounceWaitMs, sinceSignal + TickMs)
    /\ lastCaller' = "none"
    /\ UNCHANGED <<toolbarPresent, anchorPresent, bodyPresent, buttons,
                   retried, pc, burstSignals, burstCalls>>

(***************************************************************************)
(* The background script.                                                  *)
(***************************************************************************)
\* The number of runtime messages the background script receives.
MaxMessages == 3

\* A JavaScript undefined: a missing field, a missing storage key.
Undefined == "undefined"
\* JavaScript truthiness of a string-or-undefined value.
Truthy(v) == v \notin {Undefined, ""}

\* The messages the listener may receive.
Contents == {Undefined, "", "<p>Hi</p>"}
Messages ==
    {[action |-> "summarizeEmail", content |-> c] : c \in Contents}
        \cup {[action |-> "ping", content |-> Undefined]}

\* What the backend may do with a request: answer with a status code and a
\* body, or fail at transport level (fetch rejects with a TypeError).
\* response.ok
Ok(status) == 200 <= status /\ status <= 299

HttpStatuses == {200, 503}
Bodies(status) == IF Ok(status) THEN {"", "Hello summary"} ELSE {"", "overloaded"}
RejectMessages == {"", "Failed to fetch"}
Replies ==
    UNION {{[kind |-> "http", status |-> s, body |-> b] : b \in Bodies(s)} :
              s \in HttpStatuses}
        \cup {[kind |-> "reject", status |-> 0, body |-> m] : m \in RejectMessages}
NoReply == [kind |-> "none", status |-> 0, body |-> ""]

(***************************************************************************)
(*   storage   chrome.storage.local: the keys summaryStatus, emailSummary  *)
(*   nWrites   number of chrome.storage.local.set calls made so far        *)
(*   reqs      the messages received so far, in order, each with           *)
(*               acks       the sendResponse calls made for it             *)
(*               phase      "nofetch", or the state of its fetch:          *)
(*                          "pending" or "settled"                         *)
(*               reply      what the backend did (NoReply until settled)   *)
(*               loadedAt   the number of the handler's storage write      *)
(*               settledAt  the number of the promise chain's write        *)
(***************************************************************************)
VARIABLES storage, nWrites, reqs

bgVars == <<storage, nWrites, reqs>>

\* updateSummaryState(status, content): both keys overwritten, whatever is
\* stored (cur).  chrome.storage.local.set calls take effect in the order
\* they are made, so the write is applied with the call.
updateSummaryState_keepResult(cur, status, content) ==
    IF cur.summaryStatus \in {"success", "error"} /\ status # "loading"
    THEN cur
    ELSE [summaryStatus |-> status, emailSummary |-> content]
updateSummaryState(cur, status, content) ==
    [summaryStatus |-> status, emailSummary |-> content]

Response(status, message) == [status |-> status, message |-> message]

\* The onMessage listener up to its return: the state it persists (writes),
\* the responses it sends (acks) and whether it starts a fetch.
OnMessageListener_silentError(request) ==
    IF request.action = "summarizeEmail"
    THEN IF ~Truthy(request.content)
         THEN [writes |-> <<[status |-> "error",
                             content |-> "Error: No content provided by content script."]>>,
               acks |-> <<>>,
               fetch |-> FALSE]
         ELSE [writes |-> <<[status |-> "loading",
                             content |-> "Sending content to backend..."]>>,
               acks |-> <<Response("processing", "Summarization request sent to backend.")>>,
               fetch |-> TRUE]
    ELSE [writes |-> <<>>, acks |-> <<>>, fetch |-> FALSE]
OnMessageListener_noLoading(request) ==
    IF request.action = "summarizeEmail"
    THEN IF ~Truthy(request.content)
         THEN [writes |-> <<[status |-> "error",
                             content |-> "Error: No content provided by content script."]>>,
               acks |-> <<Response("error", "No content provided")>>,
               fetch |-> FALSE]
         ELSE [writes |-> <<>>,
               acks |-> <<Response("processing", "Summarization request sent to backend.")>>,
               fetch |-> TRUE]
    ELSE [writes |-> <<>>, acks |-> <<>>, fetch |-> FALSE]
OnMessageListener_alwaysLoading(request) ==
    IF request.action = "summarizeEmail"
    THEN IF ~Truthy(request.content)
         THEN [writes |-> <<[status |-> "loading",
                             content |-> "Sending content to backend..."],
                            [status |-> "error",
                             content |-> "Error: No content provided by content script."]>>,
               acks |-> <<Response("error", "No content provided")>>,
               fetch |-> FALSE]
         ELSE [writes |-> <<[status |-> "loading",
                             content |-> "Sending content to backend..."]>>,
               acks |-> <<Response("processing", "Summarization request sent to backend.")>>,
               fetch |-> TRUE]
    ELSE [writes |-> <<>>, acks |-> <<>>, fetch |-> FALSE]
OnMessageListener(request) ==
    IF request.action = "summarizeEmail"
    THEN IF ~Truthy(request.content)
         THEN [writes |-> <<[status |-> "error",
                             content |-> "Error: No content provided by content script."]>>,
               acks |-> <<Response("error", "No content provided")>>,
               fetch |-> FALSE]
         ELSE [writes |-> <<[status |-> "loading",
                             content |-> "Sending content to backend..."]>>,
               acks |-> <<Response("processing", "Summarization request sent to backend.")>>,
               fetch |-> TRUE]
    ELSE [writes |-> <<>>, acks |-> <<>>, fetch |-> FALSE]

\* errorDetail of the first .then for a response that is not ok.
ErrorDetail_noBody(status, text) ==
    "Backend responded with " \o ToString(status) \o "."
ErrorDetail(status, text) ==
    "Backend responded with " \o ToString(status) \o ". Details: " \o text

\* `${error}` for the TypeError a rejected fetch carries.
ErrorToString(message) ==
    IF message = "" THEN "TypeError" ELSE "TypeError: " \o message

\* The message of the error the .catch receives.
CaughtMessage(reply) ==
    IF reply.kind = "http" THEN ErrorDetail(reply.status, reply.body)
    ELSE reply.body

\* The second .then: updateSummaryState('success', summaryText || ...).
SuccessSummary_raw(summaryText) == summaryText
SuccessSummary(summaryText) ==
    IF summaryText # "" THEN summaryText ELSE "Backend returned empty summary."

\* The .catch: errorMsg and the persisted text.
FailureSummary(reply) ==
    LET message == CaughtMessage(reply)
        errorMsg == "Error during backend call: "
                        \o (IF message # "" THEN message ELSE ErrorToString(message))
    IN  "Summarization Failed: " \o errorMsg

\* The state the promise chain of a fetch persists once the backend has
\* done `reply`.
Outcome_alwaysSuccess(reply) ==
    [status |-> "success", content |-> SuccessSummary(reply.body)]
Outcome(reply) ==
    IF reply.kind = "http" /\ Ok(reply.status)
    THEN [status |-> "success", content |-> SuccessSummary(reply.body)]
    ELSE [status |-> "error", content |-> FailureSummary(reply)]

RECURSIVE ApplyWrites(_, _)
ApplyWrites(cur, ws) ==
    IF ws = <<>> THEN cur
    ELSE ApplyWrites(updateSummaryState(cur, Head(ws).status, Head(ws).content), Tail(ws))

BGInit ==
    /\ storage = [summaryStatus |-> Undefined, emailSummary |-> Undefined]
    /\ nWrites = 0
    /\ reqs = <<>>

\* The listener runs for the message request.
Dispatch(request) ==
    LET h == OnMessageListener(request)
    IN  /\ storage' = ApplyWrites(storage, h.writes)
        /\ nWrites' = nWrites + Len(h.writes)
        /\ reqs' = Append(reqs,
               [action |-> request.action, content |-> request.content,
                acks |-> h.acks,
                phase |-> IF h.fetch THEN "pending" ELSE "nofetch",
                reply |-> NoReply,
                loadedAt |-> nWrites + Len(h.writes),
                settledAt |-> 0])

\* chrome.runtime.onMessage: the listener runs for one message.
OnMessage ==
    /\ Len(reqs) < MaxMessages
    /\ \E request \in Messages : Dispatch(request)

\* The fetch of request i settles and its .then/.then/.catch chain runs to
\* the end: one storage write, no sendResponse.
FetchSettles ==
    \E i \in 1..Len(reqs), reply \in Replies :
        /\ reqs[i].phase = "pending"
        /\ LET o == Outcome(reply)
           IN  storage' = updateSummaryState(storage, o.status, o.content)
        /\ nWrites' = nWrites + 1
        /\ reqs' = [reqs EXCEPT ![i].phase = "settled", ![i].reply = reply,
                                ![i].settledAt = nWrites + 1]

(***************************************************************************)
(* Install and update of the extension.                                    *)
(*   lifecycle  "installing" until the onInstalled event of the first      *)
(*              install has been handled, "updating" between an update     *)
(*              and its onInstalled event, "running" otherwise             *)
(* chrome.storage.local is empty at a first install and survives an        *)
(* update.                                                                 *)
(***************************************************************************)
VARIABLES lifecycle

lcVars == <<lifecycle>>

LCInit == lifecycle = "installing"

\* chrome.runtime.onInstalled listener: a console.log, the removal of the
\* two keys being commented out.
OnInstalledListener(cur) == cur

OnInstalled ==
    /\ lifecycle \in {"installing", "updating"}
    /\ lifecycle' = "running"
    /\ storage' = OnInstalledListener(storage)
    /\ UNCHANGED <<nWrites, reqs>>

\* The browser installs a new version while no fetch is under way.
ExtensionUpdate ==
    /\ lifecycle = "running"
    /\ \A i \in 1..Len(reqs) : reqs[i].phase # "pending"
    /\ lifecycle' = "updating"
    /\ UNCHANGED bgVars

\* The background at work between installs.
Serve ==
    /\ lifecycle = "running"
    /\ OnMessage \/ FetchSettles
    /\ UNCHANGED lifecycle

(***************************************************************************)
(* The injected button and its click handler.                              *)
(*   btnText      summarizeBtn.textContent                                 *)
(*   btnDisabled  summarizeBtn.disabled                                    *)
(*   alerted      the alert the latest step raised ("" if none)            *)
(*   channel      the message of chrome.runtime.sendMessage: "idle" (none  *)
(*                under way), "sent" (not yet with the background) or      *)
(*                "handled" (the listener has run, the response is on its  *)
(*                way back), and its content                               *)
(*   receivedAtClick  how many messages the background had received when   *)
(*                the latest click sent its message                        *)
(***************************************************************************)
VARIABLES btnText, btnDisabled, alerted, channel, receivedAtClick

clickVars == <<btnText, btnDisabled, alerted, channel, receivedAtClick>>

\* What EMAIL_BODY_SELECTOR matches.
NoEmailBody == [present |-> FALSE, innerHTML |-> "", textContent |-> ""]
EmailBodies(present) ==
    IF present
    THEN {[present |-> TRUE, innerHTML |-> "<p>Hi</p>", textContent |-> "Hi"],
          [present |-> TRUE, innerHTML |-> "", textContent |-> ""]}
    ELSE {NoEmailBody}

\* getEmailContent()
getEmailContent(emailBody) ==
    IF emailBody.present
    THEN OrElse(OrElse(emailBody.innerHTML, emailBody.textContent), "")
    ELSE ""

NoContentAlert == "Could not retrieve email content to summarize."
LastErrorAlert == "Error initiating summary. Check console."
Idle == [state |-> "idle", content |-> ""]

ClickInit ==
    /\ btnText = "Summarize"
    /\ btnDisabled = FALSE
    /\ alerted = ""
    /\ channel = Idle
    /\ receivedAtClick = 0

\* The click listener of the injected button (a disabled button gets no
\* click events).
Click ==
    /\ buttons >= 1
    /\ ~btnDisabled
    /\ \E emailBody \in EmailBodies(bodyPresent) :
        LET emailContent == getEmailContent(emailBody)
        IN  IF emailContent # ""
            THEN /\ btnText' = "Summarizing..."
                 /\ btnDisabled' = TRUE
                 /\ channel' = [state |-> "sent", content |-> emailContent]
                 /\ receivedAtClick' = Len(reqs)
                 /\ alerted' = ""
            ELSE /\ alerted' = NoContentAlert
                 /\ UNCHANGED <<btnText, btnDisabled, channel, receivedAtClick>>

\* The message reaches the background and its listener runs.
Deliver ==
    /\ channel.state = "sent"
    /\ Len(reqs) < MaxMessages
    /\ Dispatch([action |-> "summarizeEmail", content |-> channel.content])
    /\ channel' = [channel EXCEPT !.state = "handled"]
    /\ alerted' = ""
    /\ UNCHANGED <<btnText, btnDisabled, receivedAtClick>>

\* The callback given to chrome.runtime.sendMessage, chrome.runtime.lastError
\* being set or not.
sendMessageCallback_silent(lastError) ==
    [text |-> "Summarize", disabled |-> FALSE, alert |-> ""]
sendMessageCallback(lastError) ==
    [text |-> "Summarize", disabled |-> FALSE,
     alert |-> IF lastError THEN LastErrorAlert ELSE ""]

Callback(lastError) ==
    LET c == sendMessageCallback(lastError)
    IN  /\ btnText' = c.text
        /\ btnDisabled' = c.disabled
        /\ alerted' = c.alert
        /\ channel' = Idle
        /\ UNCHANGED receivedAtClick

\* The response of the listener comes back.
Responded ==
    /\ channel.state = "handled"
    /\ Callback(FALSE)

\* The message never reaches a listener (the background is not there).
ChannelFails ==
    /\ channel.state = "sent"
    /\ Callback(TRUE)

(***************************************************************************)
(* The popup.                                                              *)
(*   popupOpen         the popup is open and its DOMContentLoaded handler  *)
(*                     has run                                             *)
(*   hasStatusElement  document.getElementById('status-message') found an  *)
(*                     element                                             *)
(*   pendingReads      chrome.storage.local.get calls whose callback has   *)
(*                     not run yet; they complete in the order issued      *)
(*   lastRender        which callback ran last: "none", "initial" (the     *)
(*                     read of DOMContentLoaded) or "changed" (a read of   *)
(*                     the onChanged listener)                             *)
(*   view              what the popup displays: the content of             *)
(*                     summaryContentElement, whether it was set as HTML,  *)
(*                     and the text of statusElement ("" without one)      *)
(***************************************************************************)
VARIABLES popupOpen, hasStatusElement, pendingReads, lastRender, view

popupVars == <<popupOpen, hasStatusElement, pendingReads, lastRender, view>>

\* The texts of the status line; the pictograph each starts with is
\* written by its name.
LoadingText == "(hourglass) Loading summary..."
ReadyText == "(check mark) Summary Ready"
ErrorText == "(cross mark) Error"
IdleText == "Idle"
IdlePrompt == "Click the \"Summarize\" button on an email first."

\* a || b where a may be undefined.
OrDefault(a, b) == IF Truthy(a) THEN a ELSE b

\* if(statusElement) statusElement.textContent = text
StatusText(hasStatus, text) == IF hasStatus THEN text ELSE ""

\* The display logic of the onChanged listener's read: nothing is touched
\* for a status other than the three.
ShowChanged_noError(result, hasStatus, old) ==
    CASE result.summaryStatus = "loading" ->
            [content |-> IF hasStatus THEN "" ELSE LoadingText,
             html |-> hasStatus,
             status |-> StatusText(hasStatus, LoadingText)]
      [] result.summaryStatus = "success" ->
            [content |-> OrDefault(result.emailSummary, "Summary not available."),
             html |-> TRUE,
             status |-> StatusText(hasStatus, ReadyText)]
      [] OTHER -> old
ShowChanged(result, hasStatus, old) ==
    CASE result.summaryStatus = "loading" ->
            [content |-> IF hasStatus THEN "" ELSE LoadingText,
             html |-> hasStatus,
             status |-> StatusText(hasStatus, LoadingText)]
      [] result.summaryStatus = "success" ->
            [content |-> OrDefault(result.emailSummary, "Summary not available."),
             html |-> TRUE,
             status |-> StatusText(hasStatus, ReadyText)]
      [] result.summaryStatus = "error" ->
            [content |-> OrDefault(result.emailSummary, "An unknown error occurred."),
             html |-> FALSE,
             status |-> StatusText(hasStatus, ErrorText)]
      [] OTHER -> old

\* The display logic of the initial read: the same three branches, and the
\* default state for anything else.
ShowInitial(result, hasStatus, old) ==
    IF result.summaryStatus \in {"loading", "success", "error"}
    THEN ShowChanged(result, hasStatus, old)
    ELSE [content |-> IdlePrompt, html |-> FALSE,
          status |-> StatusText(hasStatus, IdleText)]

\* popup.html before any script has touched it.
Blank == [content |-> "", html |-> FALSE, status |-> ""]

PopupInit ==
    /\ popupOpen = FALSE
    /\ hasStatusElement = FALSE
    /\ pendingReads = 0
    /\ lastRender = "none"
    /\ view = Blank

\* DOMContentLoaded of the popup: the elements are looked up, the initial
\* read is issued and the onChanged listener is registered.
PopupOpens ==
    /\ ~popupOpen
    /\ popupOpen' = TRUE
    /\ hasStatusElement' \in BOOLEAN
    /\ pendingReads' = 1
    /\ UNCHANGED <<lastRender, view>>

\* The callback of the oldest chrome.storage.local.get runs with what is
\* stored.
ReadCompletes ==
    /\ popupOpen
    /\ pendingReads > 0
    /\ pendingReads' = pendingReads - 1
    /\ IF lastRender = "none"
       THEN /\ view' = ShowInitial(storage, hasStatusElement, view)
            /\ lastRender' = "initial"
       ELSE /\ view' = ShowChanged(storage, hasStatusElement, view)
            /\ lastRender' = "changed"
    /\ UNCHANGED <<popupOpen, hasStatusElement>>

\* chrome.storage.onChanged: a write that changes one of the two keys
\* reaches the listener of an open popup, which issues a read.
OnChanged ==
    /\ pendingReads' =
          IF popupOpen /\ storage' # storage THEN pendingReads + 1
          ELSE pendingReads
    /\ UNCHANGED <<popupOpen, hasStatusElement, lastRender, view>>

\* The messages the background receives next to a popup.
MaxPopupMessages == 2

\* The background writes while the popup may be open.
Writes ==
    /\ \/ Len(reqs) < MaxPopupMessages /\ OnMessage
       \/ FetchSettles
    /\ OnChanged

(***************************************************************************)
(* The floating widget of the host page and its snapshot of the email.     *)
(*   hash           window.location.hash                                   *)
(*   dom            what the four selectors of getGmailInfo match          *)
(*   iframes        number of elements with id 'gmail-floating-iframe'     *)
(*   iframeDisplay  iframe.style.display                                   *)
(*   iframeLoaded   the iframe's load event has fired                      *)
(*   fbDisplay      button.style.display of the floating button ("" until  *)
(*                  the script sets it: the stylesheet shows the button)   *)
(*   lastInfo       the closure variable lastInfo (NoInfo is null)         *)
(*   pushed         the latest 'gmailInfo' message posted to the iframe    *)
(*   posted         the latest step posted a 'gmailInfo' message           *)
(***************************************************************************)
VARIABLES hash, dom, iframes, iframeDisplay, iframeLoaded, fbDisplay,
          lastInfo, pushed, posted

fwVars == <<hash, dom, iframes, iframeDisplay, iframeLoaded, fbDisplay,
            lastInfo, pushed, posted>>

\* An element a selector matches, and no match (querySelector gives null).
Element(title, textContent, innerText) ==
    [present |-> TRUE, title |-> title, textContent |-> textContent,
     innerText |-> innerText]
NoElement ==
    [present |-> FALSE, title |-> "", textContent |-> "", innerText |-> ""]

\* The pages of the host the model visits.
Hashes == {"#inbox", "#inbox/FMfcgz"}
SenderEls == {NoElement, Element("", " Ann ", " Ann ")}
DateEls == {NoElement, Element("", " Mon ", " Mon "),
            Element("Nov 5, 2026", " Mon ", " Mon ")}
SubjectEls == {NoElement, Element("", "Hi ", "Hi ")}
BodyEls == {NoElement, Element("", "Hello raw", " Hello ")}
ElementsOf(field) ==
    CASE field = "sender" -> SenderEls
      [] field = "date" -> DateEls
      [] field = "subject" -> SubjectEls
      [] field = "body" -> BodyEls
Fields == {"sender", "date", "subject", "body"}

\* The text a dereference of null would raise instead of giving.
TypeError == "TypeError: Cannot read properties of null"

\* sEl ? sEl.textContent.trim() : ''  (also the subject)
TextOf_unchecked(el) == IF el.present THEN Trim(el.textContent) ELSE TypeError
TextOf(el) == IF el.present THEN Trim(el.textContent) ELSE ""
\* dEl ? (dEl.title || dEl.textContent).trim() : ''
DateOf(el) == IF el.present THEN Trim(OrElse(el.title, el.textContent)) ELSE ""
\* bEl ? (bEl.innerText || bEl.textContent || '').trim() : ''
BodyOf(el) ==
    IF el.present THEN Trim(OrElse(OrElse(el.innerText, el.textContent), "")) ELSE ""

\* getGmailInfo()
getGmailInfo(h, d) ==
    LET page == IF Contains(OrElse(h, ""), "/") THEN "singleEmail" ELSE "list"
    IN  IF page = "singleEmail"
        THEN [page |-> page, sender |-> TextOf(d.sender), date |-> DateOf(d.date),
              subject |-> TextOf(d.subject), body |-> BodyOf(d.body)]
        ELSE [page |-> page, sender |-> "", date |-> "", subject |-> "", body |-> ""]

\* lastInfo = null, and no message posted yet.
NoInfo == [page |-> "null", sender |-> "", date |-> "", subject |-> "", body |-> ""]

\* infoChanged(newInfo)
infoChanged(newInfo, last) ==
    IF last = NoInfo THEN TRUE
    ELSE \/ newInfo.subject # last.subject
         \/ newInfo.date # last.date
         \/ newInfo.body # last.body

\* document.getElementById('gmail-floating-iframe') is truthy
IframeExists_never(n) == FALSE
IframeExists(n) == n > 0

\* The callback of the widget's MutationObserver with the document as the
\* step leaves it: n iframes, display disp, location h, elements d.
WidgetObserver(n, disp, h, d) ==
    LET info == getGmailInfo(h, d)
    IN  IF IframeExists(n) /\ disp # "none" /\ infoChanged(info, lastInfo)
        THEN /\ pushed' = info
             /\ posted' = TRUE
             /\ lastInfo' = info
        ELSE /\ posted' = FALSE
             /\ UNCHANGED <<pushed, lastInfo>>

\* The state after the IIFE has run, as the host page loads on its list
\* view: the button is in the page, no iframe, no email rendered.
FWInit ==
    /\ hash = "#inbox"
    /\ dom = [f \in Fields |-> NoElement]
    /\ iframes = 0
    /\ iframeDisplay = "none"
    /\ iframeLoaded = FALSE
    /\ fbDisplay = ""
    /\ lastInfo = NoInfo
    /\ pushed = NoInfo
    /\ posted = FALSE

\* Click on the floating button.  Appending the new iframe to the body is
\* a childList mutation, so the observer's callback follows it.
FWClick ==
    /\ UNCHANGED <<hash, dom>>
    /\ IF ~IframeExists(iframes)
       THEN /\ iframes' = iframes + 1
            /\ iframeDisplay' = "block"
            /\ iframeLoaded' = FALSE
            /\ fbDisplay' = "none"
            /\ WidgetObserver(iframes + 1, "block", hash, dom)
       ELSE IF iframeDisplay = "none"
            THEN /\ iframeDisplay' = "block"
                 /\ pushed' = getGmailInfo(hash, dom)
                 /\ posted' = TRUE
                 /\ fbDisplay' = "none"
                 /\ UNCHANGED <<iframes, iframeLoaded, lastInfo>>
            ELSE /\ iframeDisplay' = "none"
                 /\ fbDisplay' = "block"
                 /\ posted' = FALSE
                 /\ UNCHANGED <<iframes, iframeLoaded, lastInfo, pushed>>

\* iframe.onload
FWLoad ==
    /\ iframes > 0
    /\ ~iframeLoaded
    /\ iframeLoaded' = TRUE
    /\ pushed' = getGmailInfo(hash, dom)
    /\ posted' = TRUE
    /\ UNCHANGED <<hash, dom, iframes, iframeDisplay, fbDisplay, lastInfo>>

\* The host page's message listener, for a message of the given type.
MessageTypes == {"closeIframe", "getGmailInfo", "gmailInfo"}
OnWindowMessage(type) ==
    /\ UNCHANGED <<hash, dom, iframes, iframeLoaded, lastInfo>>
    /\ IF type = "closeIframe"
       THEN /\ IF IframeExists(iframes)
               THEN iframeDisplay' = "none" /\ fbDisplay' = "block"
               ELSE UNCHANGED <<iframeDisplay, fbDisplay>>
            /\ posted' = FALSE
            /\ UNCHANGED pushed
       ELSE IF type = "getGmailInfo"
            THEN /\ IF IframeExists(iframes)
                    THEN pushed' = getGmailInfo(hash, dom) /\ posted' = TRUE
                    ELSE posted' = FALSE /\ UNCHANGED pushed
                 /\ UNCHANGED <<iframeDisplay, fbDisplay>>
            ELSE /\ posted' = FALSE
                 /\ UNCHANGED <<iframeDisplay, fbDisplay, pushed>>

FWMessage == \E type \in MessageTypes : OnWindowMessage(type)

\* The host moves to another page.
HostNavigate ==
    /\ \E h \in Hashes \ {hash} : hash' = h
    /\ posted' = FALSE
    /\ UNCHANGED <<dom, iframes, iframeDisplay, iframeLoaded, fbDisplay,
                   lastInfo, pushed>>

\* The host changes the page under document.body: one of the elements the
\* selectors match is replaced (or something else is), and the observer's
\* callback runs.
HostMutate ==
    /\ \E f \in Fields : \E el \in ElementsOf(f) :
          /\ dom' = [dom EXCEPT ![f] = el]
          /\ WidgetObserver(iframes, iframeDisplay, hash, dom')
    /\ UNCHANGED <<hash, iframes, iframeDisplay, iframeLoaded, fbDisplay>>

(***************************************************************************)
(* The script of the floating iframe.                                      *)
(*   ifLoaded          the script has run                                  *)
(*   lastEmailContent  the variable lastEmailContent                       *)
(*   lastPageType      the variable lastPageType                           *)
(*   summariseDisabled summariseBtn.disabled                               *)
(*   summaryDisplay    style.display of the element 'summary-result'       *)
(*   summaryText       innerText of the element 'summary-result'           *)
(*   flights           the fetches of the summarise clicks so far, in      *)
(*                     order: the content sent, "pending" or "settled",    *)
(*                     and the reply                                       *)
(*   gotInfo           a 'gmailInfo' message has been received             *)
(*   sinceInfo         no summarise click since the latest 'gmailInfo'     *)
(*   textOf            the click whose fetch wrote summaryText (0: none)   *)
(* The element 'content', which the listener fills with the page, sender,  *)
(* date and subject, is written and never read: it is left out.            *)
(***************************************************************************)
VARIABLES ifLoaded, lastEmailContent, lastPageType, summariseDisabled,
          summaryDisplay, summaryText, flights, gotInfo, sinceInfo, textOf

ifVars == <<ifLoaded, lastEmailContent, lastPageType, summariseDisabled,
            summaryDisplay, summaryText, flights, gotInfo, sinceInfo, textOf>>

\* The summarise clicks of one run of the iframe.
MaxClicks == 3

\* The 'gmailInfo' messages the host page may post (getGmailInfo: no body
\* on a list page).
InfoBodies == {"", "Hello", "Bye"}
GmailInfos ==
    {[page |-> "list", body |-> ""]}
        \cup {[page |-> "singleEmail", body |-> b] : b \in InfoBodies}

\* emailContent of the message listener.
EmailContentOf(info) ==
    IF info.page = "singleEmail" THEN OrElse(info.body, "") ELSE ""

\* btn.disabled = !(page === 'singleEmail' && emailContent && emailContent.length > 0)
DisabledFor(page, emailContent) ==
    ~(page = "singleEmail" /\ emailContent # "" /\ Len(emailContent) > 0)

\* What the click handler writes to 'summary-result' once its fetch has
\* settled: the body of an ok response, or 'Error: ' + e.message.
SummaryOf(reply) ==
    IF reply.kind = "http"
    THEN IF Ok(reply.status) THEN reply.body
         ELSE "Error: " \o "Failed to summarise: " \o reply.body
    ELSE "Error: " \o reply.body

\* Before the script runs: iframe.html with nothing shown.
IframeInit ==
    /\ ifLoaded = FALSE
    /\ lastEmailContent = ""
    /\ lastPageType = ""
    /\ summariseDisabled = FALSE
    /\ summaryDisplay = "none"
    /\ summaryText = ""
    /\ flights = <<>>
    /\ gotInfo = FALSE
    /\ sinceInfo = FALSE
    /\ textOf = 0

\* Top level of the script: getGmailInfo is asked of the parent, the two
\* variables are initialised and the listeners registered; the button is
\* as iframe.html has it.
IframeLoads ==
    /\ ~ifLoaded
    /\ ifLoaded' = TRUE
    /\ lastEmailContent' = ""
    /\ lastPageType' = ""
    /\ summariseDisabled' \in BOOLEAN
    /\ UNCHANGED <<summaryDisplay, summaryText, flights, gotInfo, sinceInfo, textOf>>

\* The message listener, for a 'gmailInfo' message.
OnGmailInfo ==
    /\ ifLoaded
    /\ \E info \in GmailInfos :
        LET emailContent == EmailContentOf(info)
        IN  /\ lastPageType' = info.page
            /\ lastEmailContent' = emailContent
            /\ summaryDisplay' = "none"
            /\ summaryText' = ""
            /\ summariseDisabled' = DisabledFor(info.page, emailContent)
    /\ gotInfo' = TRUE
    /\ sinceInfo' = TRUE
    /\ textOf' = 0
    /\ UNCHANGED <<ifLoaded, flights>>

\* Click on the summarise button, up to the fetch call (a disabled button
\* gets no click events).
SummariseClick ==
    /\ ifLoaded
    /\ ~summariseDisabled
    /\ Len(flights) < MaxClicks
    /\ summaryDisplay' = "block"
    /\ summaryText' = "Summarising..."
    /\ summariseDisabled' = TRUE
    /\ flights' = Append(flights, [content |-> lastEmailContent,
                                   phase |-> "pending", reply |-> NoReply])
    /\ sinceInfo' = FALSE
    /\ textOf' = 0
    /\ UNCHANGED <<ifLoaded, lastEmailContent, lastPageType, gotInfo>>

\* The fetch of click i settles and the handler runs to its end.
SummariseSettles ==
    /\ \E i \in 1..Len(flights), reply \in Replies :
        /\ flights[i].phase = "pending"
        /\ summaryText' = SummaryOf(reply)
        /\ textOf' = i
        /\ flights' = [flights EXCEPT ![i].phase = "settled", ![i].reply = reply]
    /\ summariseDisabled' = FALSE
    /\ UNCHANGED <<ifLoaded, lastEmailContent, lastPageType, summaryDisplay,
                   gotInfo, sinceInfo>>

(***************************************************************************)
(* The specifications: one per execution context.                          *)
(***************************************************************************)
vars == <<csVars, bgVars, fwVars, lcVars, clickVars, popupVars, ifVars>>

Init ==
    CSInit /\ BGInit /\ FWInit /\ LCInit /\ ClickInit /\ PopupInit /\ IframeInit

\* What the steps of one context leave alone.
exceptCS == <<bgVars, fwVars, lcVars, clickVars, popupVars, ifVars>>
exceptBG == <<csVars, fwVars, lcVars, clickVars, popupVars, ifVars>>
exceptFW == <<csVars, bgVars, lcVars, clickVars, popupVars, ifVars>>
exceptLC == <<csVars, fwVars, clickVars, popupVars, ifVars>>
exceptClick == <<csVars, bgVars, fwVars, lcVars, popupVars, ifVars>>
exceptPopup == <<csVars, bgVars, fwVars, lcVars, clickVars, ifVars>>
exceptIframe == <<csVars, bgVars, fwVars, lcVars, clickVars, popupVars>>

NextCS ==
    \/ Start /\ UNCHANGED exceptCS
    \/ HostRender /\ UNCHANGED exceptCS
    \/ RetryFires /\ UNCHANGED exceptCS
    \/ DebounceFires /\ UNCHANGED exceptCS
    \/ Tick /\ UNCHANGED exceptCS

NextBG ==
    \/ OnMessage /\ UNCHANGED exceptBG
    \/ FetchSettles /\ UNCHANGED exceptBG

NextFW ==
    \/ FWClick /\ UNCHANGED exceptFW
    \/ FWLoad /\ UNCHANGED exceptFW
    \/ FWMessage /\ UNCHANGED exceptFW
    \/ HostNavigate /\ UNCHANGED exceptFW
    \/ HostMutate /\ UNCHANGED exceptFW

SpecCS == Init /\ [][NextCS]_vars
SpecBG == Init /\ [][NextBG]_vars

\* The content script with time passing and every due timer running
\* (the event loop runs a timer's callback once its delay is over); the
\* host is free to render or not.
SpecCSFair ==
    /\ SpecCS
    /\ WF_vars(Start /\ UNCHANGED exceptCS)
    /\ WF_vars(Tick /\ UNCHANGED exceptCS)
    /\ WF_vars(RetryFires /\ UNCHANGED exceptCS)
    /\ WF_vars(DebounceFires /\ UNCHANGED exceptCS)

\* The background script with every fetch settling in the end (the
\* backend answers or the transport fails).
SpecBGFair == SpecBG /\ WF_vars(FetchSettles /\ UNCHANGED exceptBG)

\* The floating widget of the host page.
SpecFW == Init /\ [][NextFW]_vars

\* The background over installs and updates.
NextLC ==
    \/ OnInstalled /\ UNCHANGED exceptLC
    \/ ExtensionUpdate /\ UNCHANGED exceptLC
    \/ Serve /\ UNCHANGED exceptLC

SpecLC == Init /\ [][NextLC]_vars

\* A click on the injected button, from the content script to the
\* background and back.
NextClick ==
    \/ Start /\ UNCHANGED exceptCS
    \/ Click /\ UNCHANGED exceptClick
    \/ Deliver /\ UNCHANGED <<csVars, fwVars, lcVars, popupVars, ifVars>>
    \/ Responded /\ UNCHANGED exceptClick
    \/ ChannelFails /\ UNCHANGED exceptClick
    \/ FetchSettles /\ UNCHANGED exceptBG

SpecClick == Init /\ [][NextClick]_vars

\* The popup next to the background.
NextPopup ==
    \/ PopupOpens /\ UNCHANGED exceptPopup
    \/ ReadCompletes /\ UNCHANGED exceptPopup
    \/ Writes /\ UNCHANGED <<csVars, fwVars, lcVars, clickVars, ifVars>>

SpecPopup == Init /\ [][NextPopup]_vars

\* The script of the floating iframe.
NextIframe ==
    \/ IframeLoads /\ UNCHANGED exceptIframe
    \/ OnGmailInfo /\ UNCHANGED exceptIframe
    \/ SummariseClick /\ UNCHANGED exceptIframe
    \/ SummariseSettles /\ UNCHANGED exceptIframe

SpecIframe == Init /\ [][NextIframe]_vars

(***************************************************************************)
(* The content script: injection, retry and debounce.                      *)
(***************************************************************************)
\* C1: in every reachable state of the content script the document holds
\* at most one element with id 'automail-summarize-btn'.
C1_AtMostOneButton == buttons <= 1

\* A debounced call that found the button in place and inserted nothing
\* (an insertion with toolbar and body present would have restarted the
\* debounce timer).
C1_Witness ==
    /\ buttons = 1
    /\ lastCaller = "debounced"
    /\ bodyPresent
    /\ NumDebounce(timers) = 0

\* C2: at most one retry timer is pending at any time.
C2_AtMostOneRetryPending == NumRetry(timers) <= 1

\* The anchor is absent, the retry's wait is over and a watcher timer, set
\* while the retry was waiting, is behind it.
C2_Witness ==
    /\ ~anchorPresent
    /\ NumRetry(timers) = 1
    /\ NumDebounce(timers) = 1
    /\ timers[1].kind = "retry"
    /\ timers[1].rem = 0
    /\ retried

\* C3: a call of addSummarizeButton made by the retry timer that finds the
\* anchor absent leaves no retry timer pending.
C3_RetryGivesUp ==
    (lastCaller = "retry" /\ buttons = 0 /\ ~anchorPresent) => NumRetry(timers) = 0

\* The retry timer has just fired and found neither button nor anchor, with
\* a watcher timer still waiting.
C3_Witness ==
    /\ lastCaller = "retry"
    /\ buttons = 0
    /\ ~anchorPresent
    /\ ~retried
    /\ NumDebounce(timers) = 1

\* C4: at most one debounce timer is pending; the debounced function calls
\* addSummarizeButton only when a full DebounceWaitMs has passed since the
\* latest signal; and a burst of signals, each arriving while the timer of
\* the one before is waiting, has produced no call while its timer waits
\* and exactly one call once its timer has run.
C4_Debounce ==
    [][/\ NumDebounce(timers') <= 1
       /\ lastCaller' = "debounced" => sinceSignal = DebounceWaitMs
       /\ NumDebounce(timers') = 1 => burstCalls' = 0
       /\ (burstSignals' >= 1 /\ NumDebounce(timers') = 0) => burstCalls' = 1
      ]_vars

\* A burst of MaxBurst signals has just produced its one call.
C4_Witness ==
    /\ burstSignals = MaxBurst
    /\ burstCalls = 1
    /\ lastCaller = "debounced"

(***************************************************************************)
(* The background script: the persisted summary state.                     *)
(***************************************************************************)
\* The step called chrome.storage.local.set.
Wrote == nWrites' # nWrites
\* The step ran the onMessage listener; Received is the message's record.
MessageStep == Len(reqs') > Len(reqs)
Received == reqs'[Len(reqs')]
\* The step ran the promise chain of the fetch of request i.
SettleStep(i) == reqs[i].phase = "pending" /\ reqs'[i].phase = "settled"
Pending(i) == reqs[i].phase = "pending"
Settled(i) == reqs[i].phase = "settled"
Persisted(o) == [summaryStatus |-> o.status, emailSummary |-> o.content]
StatusEdge == <<storage.summaryStatus, storage'.summaryStatus>>

\* The edges the spec gives the status; Idle is the missing key.
ClaimEdges ==
    {<<Undefined, "loading">>, <<"loading", "success">>, <<"loading", "error">>,
     <<"success", "loading">>, <<"error", "loading">>}
\* Every edge but those into Idle and Idle -> Success.
CodeEdges ==
    ({Undefined, "loading", "success", "error"} \X {"loading", "success", "error"})
        \ {<<Undefined, "success">>}

\* C5 as stated: every write of the status follows one of the edges
\* Idle->Loading, Loading->Success, Loading->Error, Success->Loading,
\* Error->Loading.
C5_OnlyClaimedEdges == [][Wrote => StatusEdge \in ClaimEdges]_vars

\* A write that nothing came between: a request with content received
\* while no fetch is pending, or the end of a fetch whose own Loading write
\* is the latest write.
Undisturbed ==
    \/ /\ MessageStep
       /\ Received.action = "summarizeEmail"
       /\ Truthy(Received.content)
       /\ \A j \in 1..Len(reqs) : ~Pending(j)
    \/ \E i \in 1..Len(reqs) : SettleStep(i) /\ reqs[i].loadedAt = nWrites

\* C5 amended: the status never returns to Idle and never goes from Idle
\* to Success; an undisturbed write follows the edges of the claim; any
\* other write (a request without content, overlapping requests) may take
\* any other edge.
C5_Edges ==
    [][Wrote => /\ StatusEdge \in CodeEdges
                /\ Undisturbed => StatusEdge \in ClaimEdges]_vars

\* Two requests overlapped; the first ended in Success, then the second
\* overwrote it with Error, with no Loading in between.
C5_Witness ==
    \E i, j \in 1..Len(reqs) :
        /\ Settled(i) /\ Settled(j)
        /\ reqs[j].loadedAt < reqs[i].settledAt
        /\ reqs[j].settledAt = reqs[i].settledAt + 1
        /\ reqs[j].settledAt = nWrites
        /\ Outcome(reqs[i].reply).status = "success"
        /\ storage.summaryStatus = "error"

\* C6 as stated: the listener persists 'loading' first for every
\* summarizeEmail message, whatever its content.
C6_AlwaysLoadingFirst ==
    [][(MessageStep /\ Received.action = "summarizeEmail")
          => (Wrote /\ storage'.summaryStatus = "loading")]_vars

\* C6 amended: the listener makes one write for a summarizeEmail message:
\* 'loading' when the content is non-empty, whatever was persisted; 'error'
\* when the content is missing or empty.
C6_LoadingIffContent ==
    [][(MessageStep /\ Received.action = "summarizeEmail")
          => /\ nWrites' = nWrites + 1
             /\ storage' = IF Truthy(Received.content)
                           THEN [summaryStatus |-> "loading",
                                 emailSummary |-> "Sending content to backend..."]
                           ELSE [summaryStatus |-> "error",
                                 emailSummary |->
                                     "Error: No content provided by content script."]
      ]_vars

\* A request with content has just overwritten the Success of the request
\* before it with Loading.
C6_Witness ==
    /\ Len(reqs) >= 2
    /\ Settled(1)
    /\ Outcome(reqs[1].reply).status = "success"
    /\ Pending(2)
    /\ reqs[2].loadedAt = nWrites
    /\ reqs[1].settledAt = nWrites - 1
    /\ storage.summaryStatus = "loading"

\* C7 as stated: a 2xx answer with body B persists 'success' with B
\* verbatim, the empty body included.
C7_BodyVerbatim ==
    [][\A i \in 1..Len(reqs) :
          (SettleStep(i) /\ reqs'[i].reply.kind = "http" /\ Ok(reqs'[i].reply.status))
              => storage' = [summaryStatus |-> "success",
                             emailSummary |-> reqs'[i].reply.body]]_vars

\* C7 amended: a 2xx answer with body B persists 'success' with B verbatim
\* when B is not empty, and with 'Backend returned empty summary.' when B is
\* the empty string.
C7_BodyVerbatimUnlessEmpty ==
    [][\A i \in 1..Len(reqs) :
          (SettleStep(i) /\ reqs'[i].reply.kind = "http" /\ Ok(reqs'[i].reply.status))
              => storage' =
                    [summaryStatus |-> "success",
                     emailSummary |->
                         IF reqs'[i].reply.body # "" THEN reqs'[i].reply.body
                         ELSE "Backend returned empty summary."]]_vars

\* The single request got 200 with body "Hello summary".
C7_Witness ==
    /\ Len(reqs) = 1
    /\ Settled(1)
    /\ reqs[1].content = "<p>Hi</p>"
    /\ reqs[1].reply = [kind |-> "http", status |-> 200, body |-> "Hello summary"]
    /\ storage = [summaryStatus |-> "success", emailSummary |-> "Hello summary"]

\* C8: a fetch that ends in a non-2xx answer persists 'error' with a text
\* holding the status code and the body; a rejected fetch persists 'error'
\* with a text holding the error's message.
C8_FailurePersistsError ==
    [][\A i \in 1..Len(reqs) :
          LET reply == reqs'[i].reply
          IN  (SettleStep(i) /\ ~(reply.kind = "http" /\ Ok(reply.status)))
                 => /\ storage'.summaryStatus = "error"
                    /\ Contains(storage'.emailSummary, reply.body)
                    /\ reply.kind = "http"
                          => Contains(storage'.emailSummary, ToString(reply.status))
      ]_vars

\* The latest write is the end of a request answered 503 'overloaded'.
C8_Witness ==
    \E i \in 1..Len(reqs) :
        /\ Settled(i)
        /\ reqs[i].settledAt = nWrites
        /\ reqs[i].reply = [kind |-> "http", status |-> 503, body |-> "overloaded"]
        /\ storage.summaryStatus = "error"

\* C9: every summarizeEmail message has exactly one response, 'processing'
\* when it has content and 'error' when not, from the listener's return on
\* (before and after its fetch ends); any other message has no response and
\* its handling leaves the storage alone.
C9_ImmediateAckOnly ==
    [][/\ \A i \in 1..Len(reqs') :
            LET r == reqs'[i]
            IN  IF r.action = "summarizeEmail"
                THEN /\ Len(r.acks) = 1
                     /\ r.acks[1].status =
                            IF Truthy(r.content) THEN "processing" ELSE "error"
                ELSE r.acks = <<>>
       /\ (MessageStep /\ Received.action # "summarizeEmail")
             => (storage' = storage /\ ~Wrote)
      ]_vars

\* One request has ended with its single 'processing' response, one was
\* refused for its missing content, and one message was not a request.
C9_Witness ==
    \E i, j, k \in 1..Len(reqs) :
        /\ Settled(i) /\ Len(reqs[i].acks) = 1
        /\ reqs[i].acks[1].status = "processing"
        /\ reqs[j].action = "summarizeEmail" /\ ~Truthy(reqs[j].content)
        /\ reqs[j].acks[1].status = "error"
        /\ reqs[k].action = "ping"

\* C10: when the latest write is the end of a fetch, the persisted state
\* is that fetch's outcome, whichever request was issued first.
C10_LastWriterWins ==
    \A i \in 1..Len(reqs) :
        (Settled(i) /\ reqs[i].settledAt = nWrites)
            => storage = Persisted(Outcome(reqs[i].reply))

\* Two requests were in flight at once; the newer one ended first, and the
\* older one's different outcome then overwrote it.
C10_Witness ==
    \E i, j \in 1..Len(reqs) :
        /\ i < j
        /\ Settled(i) /\ Settled(j)
        /\ reqs[j].loadedAt < reqs[j].settledAt
        /\ reqs[j].settledAt < reqs[i].settledAt
        /\ reqs[i].settledAt = nWrites
        /\ \A k \in 1..Len(reqs) : ~Pending(k)
        /\ Outcome(reqs[i].reply) # Outcome(reqs[j].reply)
        /\ storage = Persisted(Outcome(reqs[i].reply))

(***************************************************************************)
(* Liveness of the two contexts, idempotence and the retry flag.           *)
(***************************************************************************)
\* C11: while the fetch of a request is pending and nothing was written
\* since the request's own Loading write, the persisted status is
\* 'loading'; and, every fetch settling in the end, a status of 'loading'
\* is followed by 'success' or 'error'.
C11_LoadingUntilResolved ==
    /\ [](\A i \in 1..Len(reqs) :
             (Pending(i) /\ reqs[i].loadedAt = nWrites)
                 => storage.summaryStatus = "loading")
    /\ (storage.summaryStatus = "loading")
           ~> (storage.summaryStatus \in {"success", "error"})

\* A second request is waiting for its backend, the first one has ended.
C11_Witness ==
    \E i, j \in 1..Len(reqs) :
        /\ Settled(i)
        /\ Pending(j)
        /\ reqs[j].loadedAt = nWrites
        /\ storage.summaryStatus = "loading"

\* A gated mutation signal arrived less than DebounceWaitMs ago, with
\* toolbar, anchor and email body present and no button.
SignalledNoButton ==
    /\ pc = "running"
    /\ toolbarPresent /\ anchorPresent /\ bodyPresent
    /\ buttons = 0
    /\ sinceSignal < DebounceWaitMs

\* C12: if the host stops rendering in the end, then whenever a signal has
\* been delivered with toolbar, anchor and body present and the button
\* missing, the button is injected later on, unless the host takes the
\* anchor or the body away again.
C12_EventuallyInjected ==
    (<>[][~HostRender]_vars)
        => (SignalledNoButton ~> (buttons = 1 \/ ~anchorPresent \/ ~bodyPresent))

\* The debounced call has just injected the button.
C12_Witness ==
    /\ lastCaller = "debounced"
    /\ buttons = 1
    /\ anchorPresent /\ bodyPresent
    /\ sinceSignal = 0
    /\ NumDebounce(timers) = 1

\* C13: a call of addSummarizeButton that finds the button present inserts
\* nothing, schedules no timer and leaves the retry flag as it is, with or
\* without the anchor.
C13_IdempotentWhenPresent ==
    [][(lastCaller' # "none" /\ buttons >= 1)
          => /\ buttons' = buttons
             /\ retried' = retried
             /\ NumRetry(timers') <= NumRetry(timers)
             /\ NumDebounce(timers') <= NumDebounce(timers)
             /\ UNCHANGED <<toolbarPresent, anchorPresent, bodyPresent>>]_vars

\* A debounced call has just found the button in place while the anchor is
\* gone.
C13_Witness ==
    /\ lastCaller = "debounced"
    /\ buttons = 1
    /\ ~anchorPresent
    /\ timers = <<>>

\* C20: whenever window.addSummarizeButtonRetried is true, a retry timer
\* is pending.
C20_FlagImpliesRetryPending == retried => NumRetry(timers) >= 1

\* The flag is set and its retry timer is waiting, after an earlier retry
\* gave up.
C20_Witness ==
    /\ retried
    /\ NumRetry(timers) = 1
    /\ lastCaller = "debounced"
    /\ buttons = 0

(***************************************************************************)
(* Claims about the floating widget.                                       *)
(***************************************************************************)

\* The iframe is in the page and displayed.
IframeVisible == iframes > 0 /\ iframeDisplay # "none"

\* C14: getGmailInfo returns a snapshot for every hash and every
\* combination of present and absent elements, and never raises: the page
\* is 'singleEmail' exactly when the hash contains '/'; a field whose
\* selector matches nothing is the empty string; on a 'list' page, or when
\* nothing matches, sender, date, subject and body are all empty.
C14_SnapshotTotal ==
    posted =>
        /\ pushed = getGmailInfo(hash, dom)
        /\ pushed.page = (IF hash = "#inbox/FMfcgz" THEN "singleEmail" ELSE "list")
        /\ \A f \in Fields :
              /\ pushed[f] # TypeError
              /\ ~dom[f].present => pushed[f] = ""
              /\ pushed.page = "list" => pushed[f] = ""

C14_Witness ==
    /\ posted
    /\ pushed.page = "singleEmail"
    /\ \A f \in Fields : ~dom[f].present /\ pushed[f] = ""

\* C18 as claimed: on a mutation signal while the iframe is visible, a
\* 'gmailInfo' message is posted if and only if the fresh snapshot differs
\* in some field (page, sender, date, subject, body) from the snapshot
\* most recently pushed to the iframe.
C18_PushIffDiffers ==
    [][(HostMutate /\ IframeVisible)
          => (posted' <=> getGmailInfo(hash', dom') # pushed)]_vars

\* C19: at most one iframe exists, and the floating button is hidden
\* exactly when the iframe exists and is displayed; handling 'closeIframe'
\* ends with the iframe hidden and the button shown, and changes nothing
\* when no iframe exists.
C19_Visibility ==
    /\ [](/\ iframes <= 1
          /\ (fbDisplay = "none") <=> IframeVisible)
    /\ [][OnWindowMessage("closeIframe")
            => IF iframes = 0
               THEN UNCHANGED <<iframes, iframeDisplay, fbDisplay, pushed, lastInfo>>
               ELSE iframeDisplay' = "none" /\ fbDisplay' = "block"]_vars

C19_Witness ==
    /\ iframes = 1
    /\ iframeLoaded
    /\ iframeDisplay = "none"
    /\ fbDisplay = "block"
    /\ pushed # NoInfo

(***************************************************************************)
(* Claims about install, the click path and the popup.                     *)
(***************************************************************************)

\* C16 as claimed: once the onInstalled event has been handled, for a first
\* install or an update, the persisted summaryStatus is Idle (no status
\* stored).
C16_IdleAfterInstall ==
    [][OnInstalled => storage'.summaryStatus = Undefined]_vars

Presentation(kind, stored, hasStatus) ==
    CASE kind = "Loading" ->
            [content |-> IF hasStatus THEN "" ELSE LoadingText,
             html |-> hasStatus,
             status |-> IF hasStatus THEN LoadingText ELSE ""]
      [] kind = "Success" ->
            [content |-> stored.emailSummary, html |-> TRUE,
             status |-> IF hasStatus THEN ReadyText ELSE ""]
      [] kind = "Error" ->
            [content |-> stored.emailSummary, html |-> FALSE,
             status |-> IF hasStatus THEN ErrorText ELSE ""]
      [] kind = "Idle" ->
            [content |-> IdlePrompt, html |-> FALSE,
             status |-> IF hasStatus THEN IdleText ELSE ""]
Presentations == {"Idle", "Loading", "Success", "Error"}
KindOf(status) ==
    CASE status = "loading" -> "Loading"
      [] status = "success" -> "Success"
      [] status = "error" -> "Error"
      [] OTHER -> "Idle"

InFlight(i) == flights[i].phase = "pending"

\* C21 as claimed: at most one summarisation is in flight, and while the
\* fetch of a click is in flight the summarise button is disabled,
\* whatever 'gmailInfo' messages arrive.
C21_DisabledWhileInFlight ==
    /\ Cardinality({i \in 1..Len(flights) : InFlight(i)}) <= 1
    /\ (\E i \in 1..Len(flights) : InFlight(i)) => summariseDisabled

\* C22 as claimed: once a 'gmailInfo' message has been received, an enabled
\* summarise button means that the last page is 'singleEmail' and
\* lastEmailContent is not empty.
C22_EnabledMeansContent ==
    (gotInfo /\ ~summariseDisabled)
        => (lastPageType = "singleEmail" /\ lastEmailContent # "")

\* C23 as claimed: from a 'gmailInfo' message to the next summarise click
\* the summary result is hidden and its text empty, and a displayed text
\* that a fetch wrote answers a request whose content is the current
\* lastEmailContent.
C23_NoStaleSummary ==
    /\ sinceInfo => (summaryDisplay = "none" /\ summaryText = "")
    /\ (summaryDisplay = "block" /\ textOf > 0)
          => flights[textOf].content = lastEmailContent

====
